---- MODULE Spec2Model ----
(***************************************************************************)
(* The ingest-and-deliver pipeline of hudler: HUDClient.connect_and_display *)
(* (src/main.py) consuming an SSE stream, HUDClient.parse_event_data, and   *)
(* the serial display channel PicoScrollDisplay (src/display.py), whose     *)
(* control flow QualiaESP32Display repeats line for line; and the throttle   *)
(* loop of the device firmware (src/code.py main).                          *)
(*                                                                         *)
(* Readings are fixed-point, in tenths: 427 is 42.7 and 300 is 30.0.        *)
(* Time is counted in ticks of 50 ms.                                       *)
(***************************************************************************)
EXTENDS Integers, Sequences, FiniteSets, TLC

VARIABLES
    pc,               \* position of connect_and_display
    retry_count,      \* local retry_count of connect_and_display
    ser,              \* display.ser: "None" or "Serial"
    port,             \* display.port: "None" or a device path
    current_speed,    \* display.current_speed: "None" or a reading
    SERIAL_AVAILABLE, \* display.py module flag: pyserial was imported
    env_port,         \* os.getenv('PICO_SERIAL_PORT'): "None" or a path
    wire,             \* lines written to the serial device, oldest first
    calls,            \* readings passed to display.update_speed, oldest first
    devlog,           \* device operations of the latest display call, in order
    payload,          \* data field of the latest frame (or the parser's input)
    parsed,           \* what parse_event_data did with payload
    last,             \* the latest operation of the consumer, with the
                      \* retry counter it started from
    consecFails,      \* failed connection attempts since the last success
    elapsed,          \* time since the latest serial write, saturating
    failsSince,       \* failures of any kind since the last successful
                      \* connection (or since the start)
    cleanups,         \* number of display.cleanup() calls so far
    request,          \* the latest requests.get: its URL and its headers
    now,              \* code.py: time.monotonic() on the device, in ticks
    pending_speed,    \* code.py main: pending_speed
    last_speed,       \* code.py main: last_speed
    last_display_update, \* code.py main: last_display_update
    forwards,         \* code.py: the display_speed calls made, oldest first,
                      \* each with its value and the time it was made
    latest,           \* code.py: the latest valid value read from the serial
                      \* input ("None" before the first)
    comports,         \* what serial.tools.list_ports.comports() gives
    located,          \* what the latest _find_pico_port call returned
    signal_name,      \* HUDClient.signal_name (SIGNAL_NAME)
    event_data,       \* the frame {key: n} the stream sends for the signal
    api_key           \* HUDClient.api_key (API_KEY)

\* The host pipeline's own variables.
hostVars == <<pc, retry_count, ser, port, current_speed, SERIAL_AVAILABLE,
              env_port, wire, calls, devlog, payload, parsed, last,
              consecFails, elapsed, failsSince, cleanups, request>>

\* The device firmware's variables.
firmwareVars == <<now, pending_speed, last_speed, last_display_update,
                  forwards, latest>>

\* What the stream consumer and the display never assign: the firmware's
\* variables, the attached ports and the result of a port location done on
\* its own, and the configuration.
asideVars == <<firmwareVars, comports, located, signal_name, event_data, api_key>>

vars == <<hostVars, asideVars>>

----------------------------------------------------------------------------
(* Program constants and bounds *)

\* self.max_retries = 10
max_retries == 10

\* self.retry_delay = 5 (seconds)
retry_delay == 5

\* display_update_interval = 0.1 s: 2 ticks
display_update_interval == 2

\* at most this many readings are delivered to the display in one run
MaxCalls == 3

\* at most this many serial ports are attached at once
MaxPorts == 2

\* at most this many cleanup() calls are made on a display exercised alone
MaxCleanups == 2

\* the device's clock is followed up to this many ticks
MaxTime == 7

\* at most this many complete lines arrive between two turns of the
\* device's loop
MaxLines == 2

\* the signal's value in a frame goes from 1 up to this
MaxSignalValue == 13

----------------------------------------------------------------------------
(* JSON values and payloads *)

\* A decoded JSON value (or the absence of a key): t is its type, n its
\* number (for a number, and for a string that spells one).
JVal(t, n) == [t |-> t, n |-> n]

Absent == JVal("absent", 0)
JNull == JVal("null", 0)

\* The values a field may hold: 0, 30, 42.7, -1.5, "abc", "65", "", null,
\* true, false, [], [1].
FieldValues ==
    { JVal("num", 0), JVal("num", 300), JVal("num", 427), JVal("num", -15),
      JVal("str", 0), JVal("numstr", 650), JVal("emptystr", 0), JNull,
      JVal("true", 0), JVal("false", 0), JVal("emptylist", 0), JVal("list", 0) }

\* A payload: text that is not JSON, JSON that is not an object, or an object
\* given by what it holds under each recognized key (other keys are ignored
\* by the parser).
Payload(kind, a, b, c) == [kind |-> kind, VDM_VehicleSpeed |-> a, value |-> b, speed |-> c]

Malformed == Payload("malformed", Absent, Absent, Absent)
NonObject == Payload("nonobject", Absent, Absent, Absent)
EmptyData == Payload("empty", Absent, Absent, Absent)
Obj(a, b, c) == Payload("object", a, b, c)

AllPayloads ==
    {Malformed, NonObject}
    \cup { Obj(a, b, c) : a \in FieldValues \cup {Absent},
                          b \in FieldValues \cup {Absent},
                          c \in FieldValues \cup {Absent} }

----------------------------------------------------------------------------
(* parse_event_data *)

\* Python truthiness of a value got from the dict.
Truthy(v) ==
    CASE v.t = "num" -> v.n # 0
      [] v.t \in {"str", "numstr", "true", "list"} -> TRUE
      [] OTHER -> FALSE

\* Python's `a or b`.
PyOr(a, b) == IF Truthy(a) THEN a ELSE b

\* dict.get(key): the value, None when the key is absent.
DictGet(v) == IF v.t = "absent" THEN JNull ELSE v

\* The result of a call: a float, None, or an exception that leaves it.
Reading(n) == [r |-> "float", v |-> n]
PyNone == [r |-> "None", v |-> 0]
Raises(e) == [r |-> e, v |-> 0]
Unparsed == [r |-> "unparsed", v |-> 0]

\* float(speed) inside the try of parse_event_data: ValueError and TypeError
\* are caught and turn into None.
ToFloat(v) ==
    CASE v.t = "num" -> Reading(v.n)
      [] v.t = "numstr" -> Reading(v.n)
      [] v.t = "true" -> Reading(10)
      [] v.t = "false" -> Reading(0)
      [] OTHER -> PyNone

\* speed = data.get('VDM_VehicleSpeed') or data.get('value') or data.get('speed')
SelectSpeed(p) ==
    PyOr(PyOr(DictGet(p.VDM_VehicleSpeed), DictGet(p.value)), DictGet(p.speed))

parse_event_data(p) ==
    CASE p.kind = "malformed" -> PyNone
      [] p.kind = "nonobject" -> Raises("AttributeError")
      [] OTHER ->
           LET speed == SelectSpeed(p)
           IN IF speed.t # "null" THEN ToFloat(speed) ELSE PyNone

----------------------------------------------------------------------------
(* Port discovery: PicoScrollDisplay._find_pico_port *)

\* A device path; NoPort is Python's None (or an empty string).
NoPort == <<>>
DevPath(i) == <<"/dev/ttyACM", i>>
OverridePath == <<"/dev/override", 0>>

\* pico_identifiers, and one word a description may hold that is none of them
pico_identifiers == {"Pico", "pico", "Raspberry Pi Pico", "RPI", "USB Serial"}
PicoVid == 11914
OtherVid == 6790

\* A description is given by the words it contains.
Descriptions == { {"Pico", "Raspberry Pi Pico"}, {"USB Serial"}, {"Bluetooth"} }

\* What comports() reports for the i-th attached port.
PortInfos(i) ==
    { [device |-> DevPath(i), description |-> d, vid |-> v] :
        d \in Descriptions, v \in {PicoVid, OtherVid} }

RECURSIVE PortListsOfLen(_)
PortListsOfLen(n) ==
    IF n = 0 THEN {<<>>}
    ELSE { Append(s, x) : s \in PortListsOfLen(n - 1), x \in PortInfos(n) }

PortLists == UNION { PortListsOfLen(n) : n \in 0..MaxPorts }

\* One call of serial.tools.list_ports.comports(): a list, or an exception.
Enumerations ==
    { [raises |-> FALSE, ports |-> s] : s \in PortLists }
    \cup { [raises |-> TRUE, ports |-> <<>>] }

NoEnumeration == [raises |-> FALSE, ports |-> <<>>]

\* A faulty loop over ports that looks at the vendor IDs only when no
\* description matched: two passes instead of one.
RECURSIVE FirstMatchByDescription(_, _)
FirstMatchByDescription(ports, i) ==
    IF i > Len(ports) THEN NoPort
    ELSE IF ports[i].description \cap pico_identifiers # {} THEN ports[i].device
    ELSE FirstMatchByDescription(ports, i + 1)

RECURSIVE FirstMatchByVid(_, _)
FirstMatchByVid(ports, i) ==
    IF i > Len(ports) THEN NoPort
    ELSE IF ports[i].vid = PicoVid THEN ports[i].device
    ELSE FirstMatchByVid(ports, i + 1)

FirstMatchTwoPass(ports, i) ==
    IF FirstMatchByDescription(ports, i) # NoPort
    THEN FirstMatchByDescription(ports, i)
    ELSE FirstMatchByVid(ports, i)

\* The loop over ports: the first port whose description holds an identifier
\* or whose vid is the Raspberry Pi Foundation's.
RECURSIVE FirstMatch(_, _)
FirstMatch(ports, i) ==
    IF i > Len(ports) THEN NoPort
    ELSE IF ports[i].description \cap pico_identifiers # {} THEN ports[i].device
    ELSE IF ports[i].vid = PicoVid THEN ports[i].device
    ELSE FirstMatch(ports, i + 1)

\* A faulty _find_pico_port that accepts an override only when the port is
\* attached.
_find_pico_port_Checked(selfPort, envPort, avail, enum) ==
    LET attached == { enum.ports[i].device : i \in DOMAIN enum.ports }
        override == IF selfPort # NoPort THEN selfPort ELSE envPort
    IN IF override # NoPort
       THEN IF override \in attached THEN override ELSE NoPort
       ELSE IF ~avail THEN NoPort
       ELSE IF enum.raises THEN NoPort
       ELSE FirstMatch(enum.ports, 1)

_find_pico_port(selfPort, envPort, avail, enum) ==
    IF selfPort # NoPort THEN selfPort
    ELSE IF envPort # NoPort THEN envPort
    ELSE IF ~avail THEN NoPort
    ELSE IF enum.raises THEN NoPort
    ELSE FirstMatch(enum.ports, 1)

\* Whether a _find_pico_port call reaches comports().
Enumerates(selfPort, envPort, avail) ==
    selfPort = NoPort /\ envPort = NoPort /\ avail

----------------------------------------------------------------------------
(* The serial channel: PicoScrollDisplay *)

OpenOutcomes == {"ok", "SerialException", "Exception"}
WriteOutcomes == {"ok", "SerialException", "Exception"}

\* A faulty _init_serial without the pause after the open.
_init_serial_NoSettle(curSer, selfPort, envPort, avail, enum, open) ==
    LET port_name == _find_pico_port(selfPort, envPort, avail, enum)
    IN IF ~avail
       THEN [ser |-> curSer, port |-> selfPort, log |-> <<>>]
       ELSE IF port_name = NoPort
       THEN [ser |-> curSer, port |-> selfPort, log |-> <<"no_port">>]
       ELSE IF open = "ok"
       THEN [ser |-> "Serial", port |-> port_name, log |-> <<"open_ok">>]
       ELSE [ser |-> "None", port |-> selfPort, log |-> <<"open_fail">>]

\* A faulty _init_serial that forgets the retained path when the open fails.
_init_serial_ForgetOnFail(curSer, selfPort, envPort, avail, enum, open) ==
    LET port_name == _find_pico_port(selfPort, envPort, avail, enum)
    IN IF ~avail
       THEN [ser |-> curSer, port |-> selfPort, log |-> <<>>]
       ELSE IF port_name = NoPort
       THEN [ser |-> curSer, port |-> selfPort, log |-> <<"no_port">>]
       ELSE IF open = "ok"
       THEN [ser |-> "Serial", port |-> port_name, log |-> <<"open_ok", "settle">>]
       ELSE [ser |-> "None", port |-> NoPort, log |-> <<"open_fail">>]

\* _init_serial: the display's ser and port afterwards, and what it did.
_init_serial(curSer, selfPort, envPort, avail, enum, open) ==
    LET port_name == _find_pico_port(selfPort, envPort, avail, enum)
    IN IF ~avail
       THEN [ser |-> curSer, port |-> selfPort, log |-> <<>>]
       ELSE IF port_name = NoPort
       THEN [ser |-> curSer, port |-> selfPort, log |-> <<"no_port">>]
       ELSE IF open = "ok"
       THEN [ser |-> "Serial", port |-> port_name, log |-> <<"open_ok", "settle">>]
       ELSE [ser |-> "None", port |-> selfPort, log |-> <<"open_fail">>]

\* A faulty _reconnect that drops the old handle without closing it.
_reconnect_NoClose(curSer, selfPort, envPort, avail, enum, open) ==
    LET r == _init_serial("None", selfPort, envPort, avail, enum, open)
    IN [ser |-> r.ser, port |-> r.port, log |-> <<"sleep1">> \o r.log]

\* _reconnect: close and drop the handle, sleep 1 s, _init_serial.
_reconnect(curSer, selfPort, envPort, avail, enum, open) ==
    LET closed == IF curSer # "None" THEN <<"close">> ELSE <<>>
        r == _init_serial("None", selfPort, envPort, avail, enum, open)
    IN [ser |-> r.ser, port |-> r.port, log |-> closed \o <<"sleep1">> \o r.log]

\* A faulty int(speed) that floors, as speed // 1 would.
PyIntFloor(n) == n \div 10

\* int(speed): truncation toward zero (of a reading in tenths).
PyInt(n) == IF n >= 0 THEN n \div 10 ELSE -((-n) \div 10)

\* A faulty update_speed that leaves the reconnect to a later call: a serial
\* write error only drops the handle.
update_speed_Lazy(speed, curSer, selfPort, envPort, avail, w, enum, open) ==
    IF curSer = "None"
    THEN [ser |-> curSer, port |-> selfPort, written |-> <<>>,
          log |-> <<"unavailable">>, exc |-> "None"]
    ELSE IF w = "ok"
    THEN [ser |-> curSer, port |-> selfPort, written |-> <<PyInt(speed)>>,
          log |-> <<"write_ok">>, exc |-> "None"]
    ELSE IF w = "SerialException"
    THEN [ser |-> "None", port |-> selfPort, written |-> <<>>,
          log |-> <<"write_SerialException">>, exc |-> "None"]
    ELSE [ser |-> curSer, port |-> selfPort, written |-> <<>>,
          log |-> <<"write_Exception">>, exc |-> "None"]

\* A faulty update_speed without its `except Exception`: an error of the
\* write that is no SerialException leaves the call.
update_speed_Uncaught(speed, curSer, selfPort, envPort, avail, w, enum, open) ==
    IF curSer = "None"
    THEN [ser |-> curSer, port |-> selfPort, written |-> <<>>,
          log |-> <<"unavailable">>, exc |-> "None"]
    ELSE IF w = "ok"
    THEN [ser |-> curSer, port |-> selfPort, written |-> <<PyInt(speed)>>,
          log |-> <<"write_ok">>, exc |-> "None"]
    ELSE IF w = "SerialException"
    THEN LET r == _reconnect(curSer, selfPort, envPort, avail, enum, open)
         IN [ser |-> r.ser, port |-> r.port, written |-> <<>>,
             log |-> <<"write_SerialException">> \o r.log, exc |-> "None"]
    ELSE [ser |-> curSer, port |-> selfPort, written |-> <<>>,
          log |-> <<"write_Exception">>, exc |-> "Exception"]

\* A faulty update_speed that opens the port again when it holds no handle,
\* and then writes.
update_speed_Reopen(speed, curSer, selfPort, envPort, avail, w, enum, open) ==
    IF curSer = "None"
    THEN LET r == _init_serial(curSer, selfPort, envPort, avail, enum, open)
         IN IF r.ser = "Serial"
            THEN [ser |-> r.ser, port |-> r.port, written |-> <<PyInt(speed)>>,
                  log |-> r.log \o <<"write_ok">>, exc |-> "None"]
            ELSE [ser |-> r.ser, port |-> r.port, written |-> <<>>,
                  log |-> r.log \o <<"unavailable">>, exc |-> "None"]
    ELSE IF w = "ok"
    THEN [ser |-> curSer, port |-> selfPort, written |-> <<PyInt(speed)>>,
          log |-> <<"write_ok">>, exc |-> "None"]
    ELSE IF w = "SerialException"
    THEN LET r == _reconnect(curSer, selfPort, envPort, avail, enum, open)
         IN [ser |-> r.ser, port |-> r.port, written |-> <<>>,
             log |-> <<"write_SerialException">> \o r.log, exc |-> "None"]
    ELSE [ser |-> curSer, port |-> selfPort, written |-> <<>>,
          log |-> <<"write_Exception">>, exc |-> "None"]

\* A faulty update_speed that repeats a write once on the same handle when
\* it failed with an error other than a SerialException.
update_speed_WriteAgain(speed, curSer, selfPort, envPort, avail, w, enum, open) ==
    IF curSer = "None"
    THEN [ser |-> curSer, port |-> selfPort, written |-> <<>>,
          log |-> <<"unavailable">>, exc |-> "None"]
    ELSE IF w = "ok"
    THEN [ser |-> curSer, port |-> selfPort, written |-> <<PyInt(speed)>>,
          log |-> <<"write_ok">>, exc |-> "None"]
    ELSE IF w = "SerialException"
    THEN LET r == _reconnect(curSer, selfPort, envPort, avail, enum, open)
         IN [ser |-> r.ser, port |-> r.port, written |-> <<>>,
             log |-> <<"write_SerialException">> \o r.log, exc |-> "None"]
    ELSE [ser |-> curSer, port |-> selfPort, written |-> <<PyInt(speed)>>,
          log |-> <<"write_Exception", "write_ok">>, exc |-> "None"]

\* A faulty update_speed that sends the value again once the reconnect has
\* opened the port.
update_speed_Resend(speed, curSer, selfPort, envPort, avail, w, enum, open) ==
    IF curSer = "None"
    THEN [ser |-> curSer, port |-> selfPort, written |-> <<>>,
          log |-> <<"unavailable">>, exc |-> "None"]
    ELSE IF w = "ok"
    THEN [ser |-> curSer, port |-> selfPort, written |-> <<PyInt(speed)>>,
          log |-> <<"write_ok">>, exc |-> "None"]
    ELSE IF w = "SerialException"
    THEN LET r == _reconnect(curSer, selfPort, envPort, avail, enum, open)
         IN IF r.ser = "Serial"
            THEN [ser |-> r.ser, port |-> r.port, written |-> <<PyInt(speed)>>,
                  log |-> <<"write_SerialException">> \o r.log \o <<"write_ok">>,
                  exc |-> "None"]
            ELSE [ser |-> r.ser, port |-> r.port, written |-> <<>>,
                  log |-> <<"write_SerialException">> \o r.log, exc |-> "None"]
    ELSE [ser |-> curSer, port |-> selfPort, written |-> <<>>,
          log |-> <<"write_Exception">>, exc |-> "None"]

\* update_speed: the display afterwards, the lines it put on the wire, what it
\* did, and the exception that leaves the call ("None": it returns).
update_speed(speed, curSer, selfPort, envPort, avail, w, enum, open) ==
    IF curSer = "None"
    THEN [ser |-> curSer, port |-> selfPort, written |-> <<>>,
          log |-> <<"unavailable">>, exc |-> "None"]
    ELSE IF w = "ok"
    THEN [ser |-> curSer, port |-> selfPort, written |-> <<PyInt(speed)>>,
          log |-> <<"write_ok">>, exc |-> "None"]
    ELSE IF w = "SerialException"
    THEN LET r == _reconnect(curSer, selfPort, envPort, avail, enum, open)
         IN [ser |-> r.ser, port |-> r.port, written |-> <<>>,
             log |-> <<"write_SerialException">> \o r.log, exc |-> "None"]
    ELSE [ser |-> curSer, port |-> selfPort, written |-> <<>>,
          log |-> <<"write_Exception">>, exc |-> "None"]

\* A faulty constructor whose port detection lets an error of comports()
\* escape.
PicoScrollDisplay_Uncaught(portArg, envPort, avail, enum, open) ==
    LET r == _init_serial("None", portArg, envPort, avail, enum, open)
    IN IF Enumerates(portArg, envPort, avail) /\ enum.raises
       THEN [ser |-> "None", port |-> portArg, log |-> <<>>, exc |-> "Exception"]
       ELSE [ser |-> r.ser, port |-> r.port, log |-> r.log, exc |-> "None"]

\* PicoScrollDisplay(port=portArg): self.port = portArg, self.ser = None,
\* then _init_serial, which returns whatever happens.
PicoScrollDisplay(portArg, envPort, avail, enum, open) ==
    LET r == _init_serial("None", portArg, envPort, avail, enum, open)
    IN [ser |-> r.ser, port |-> r.port, log |-> r.log, exc |-> "None"]

\* How ser.close() ends.
CloseOutcomes == {"ok", "raises"}

\* A faulty cleanup whose `self.ser = None` sits inside the try, after the
\* close: a close that raises leaves the handle in place.
cleanup_KeepsHandle(curSer, close) ==
    IF curSer = "None"
    THEN [ser |-> curSer, log |-> <<>>, exc |-> "None"]
    ELSE IF close = "ok"
    THEN [ser |-> "None", log |-> <<"close">>, exc |-> "None"]
    ELSE [ser |-> curSer, log |-> <<"close_fail">>, exc |-> "None"]

\* cleanup: the handle afterwards, what it did, and the exception that leaves
\* the call. The bare except swallows whatever close raises.
cleanup(curSer, close) ==
    IF curSer = "None"
    THEN [ser |-> curSer, log |-> <<>>, exc |-> "None"]
    ELSE IF close = "ok"
    THEN [ser |-> "None", log |-> <<"close">>, exc |-> "None"]
    ELSE [ser |-> "None", log |-> <<"close_fail">>, exc |-> "None"]

\* The close outcomes a cleanup call reads.
CloseInputs(curSer) == IF curSer = "None" THEN {"ok"} ELSE CloseOutcomes

----------------------------------------------------------------------------
(* Starting values *)

\* code.py main, before its loop: last_display_update = 0,
\* pending_speed = None, last_speed = None; the clock reads t.
FirmwareBoot(t) ==
    /\ now = t
    /\ pending_speed = PyNone
    /\ last_speed = PyNone
    /\ last_display_update = 0
    /\ forwards = <<>>
    /\ latest = PyNone

\* No _find_pico_port call made on its own yet.
NotLocated == [called |-> FALSE, port |-> NoPort]

\* No frame sent for the configured signal.
NoFrame == [key |-> "", n |-> 0]

\* SIGNAL_NAME unset: os.getenv('SIGNAL_NAME', 'VDM_VehicleSpeed')
DefaultSignal == "VDM_VehicleSpeed"

\* API_KEY unset: os.getenv('API_KEY') is None
NoKey == "None"

\* The SIGNAL_NAME values looked at.
SignalNames == {DefaultSignal, "EngineRPM", "BatterySoC", "value"}

\* The API_KEY values looked at: unset, set but empty, set.
ApiKeys == {NoKey, "", "secret"}

\* self.sse_url: SIGNAL_PATH without its trailing slashes, "/", SIGNAL_NAME
sse_url(name) == <<"http://172.28.2.64:8000/api/v1/asset/signals", name>>

\* A faulty get_headers that tests `self.api_key is not None`.
get_headers_NotNone(key) ==
    { <<"Accept", "text/event-stream">>, <<"Cache-Control", "no-cache">> }
    \cup (IF key # NoKey THEN { <<"x-api-key", key>> } ELSE {})

\* get_headers: the two fixed headers, and x-api-key when self.api_key is
\* truthy.
get_headers(key) ==
    { <<"Accept", "text/event-stream">>, <<"Cache-Control", "no-cache">> }
    \cup (IF key \notin {NoKey, ""} THEN { <<"x-api-key", key>> } ELSE {})

\* No request made yet.
NoRequest == [url |-> <<>>, headers |-> {}]

\* The host pipeline runs with the default configuration; the firmware has
\* booted and received nothing.
AsideInit ==
    /\ FirmwareBoot(display_update_interval)
    /\ comports = NoEnumeration
    /\ located = NotLocated
    /\ signal_name = DefaultSignal
    /\ event_data = NoFrame
    /\ api_key = NoKey

\* The host pipeline is not running (the device firmware, or one function,
\* is looked at on its own): its variables other than pc.
HostOff ==
    /\ retry_count = 0
    /\ SERIAL_AVAILABLE = TRUE
    /\ env_port = NoPort
    /\ ser = "None"
    /\ port = NoPort
    /\ devlog = <<>>
    /\ current_speed = PyNone
    /\ wire = <<>>
    /\ calls = <<>>
    /\ payload = EmptyData
    /\ parsed = Unparsed
    /\ last = [op |-> "init", event |-> "none", rc |-> 0]
    /\ consecFails = 0
    /\ elapsed = display_update_interval
    /\ failsSince = 0
    /\ cleanups = 0
    /\ request = NoRequest

----------------------------------------------------------------------------
(* The stream consumer: HUDClient.connect_and_display *)

\* The payloads the modelled stream carries: not JSON, [1, 2], {},
\* {"value": "abc"}, {"value": 0}, {"value": 30}, {"speed": 42.7}.
StreamPayloads ==
    { Malformed, NonObject,
      Obj(Absent, Absent, Absent),
      Obj(Absent, JVal("str", 0), Absent),
      Obj(Absent, JVal("num", 0), Absent),
      Obj(Absent, JVal("num", 300), Absent),
      Obj(Absent, Absent, JVal("num", 427)) }

\* An SSE event: its type and its data field.
Frames ==
    { [event |-> "message", data |-> d] : d \in StreamPayloads \cup {EmptyData} }
    \cup { [event |-> "keep-alive", data |-> d] :
             d \in {EmptyData, Obj(Absent, JVal("num", 300), Absent)} }

ConnectOutcomes == {"ok", "ConnectionError", "HTTPError"}
StreamErrors == {"RequestException", "Exception"}

Min(a, b) == IF a < b THEN a ELSE b

\* A faulty OnFailure that forgets to count the failure.
OnFailureNoCount(rc) ==
    [retry_count |-> rc, pc |-> "sleep"]

\* A faulty OnFailure that gives up one failure early
\* (`retry_count < self.max_retries - 1`).
OnFailureEarly(rc) ==
    IF rc + 1 < max_retries - 1
    THEN [retry_count |-> rc + 1, pc |-> "sleep"]
    ELSE [retry_count |-> rc + 1, pc |-> "raised"]

\* A faulty OnFailure that goes back to connecting without the sleep.
OnFailureNoSleep(rc) ==
    IF rc + 1 < max_retries
    THEN [retry_count |-> rc + 1, pc |-> "connect"]
    ELSE [retry_count |-> rc + 1, pc |-> "raised"]

\* A faulty failure path that counts a failure twice, as it would if both
\* except branches ran for one error.
OnFailureTwice(rc) ==
    [retry_count |-> Min(rc + 2, max_retries),
     pc |-> IF rc + 2 < max_retries THEN "sleep" ELSE "raised"]

\* The `except RequestException` handler: count the failure, then sleep retry_delay while the
\* budget lasts, else re-raise.
OnFailure(rc) ==
    IF rc + 1 < max_retries
    THEN [retry_count |-> rc + 1, pc |-> "sleep"]
    ELSE [retry_count |-> rc + 1, pc |-> "raised"]

\* A faulty loop with no `except Exception` branch: an unexpected error
\* leaves connect_and_display at once.
OnUnexpectedReraise(rc) == [retry_count |-> rc, pc |-> "raised"]

\* The `except Exception` handler: count, then sleep retry_delay while the
\* budget lasts, else re-raise.
OnUnexpected(rc) ==
    IF rc + 1 < max_retries
    THEN [retry_count |-> rc + 1, pc |-> "sleep"]
    ELSE [retry_count |-> rc + 1, pc |-> "raised"]

\* The except branch that an exception of kind e raised inside the try
\* reaches.
Handler(e, rc) ==
    IF e = "RequestException" THEN OnFailure(rc) ELSE OnUnexpected(rc)

\* A faulty OnConnected that keeps the counter.
OnConnectedKeepCount(rc) == rc

\* retry_count = 0 after raise_for_status() passed
OnConnected(rc) == 0

\* requests.get(...) and response.raise_for_status(), at the top of the loop.
Connect(outcome) ==
    /\ pc = "connect"
    /\ retry_count < max_retries
    /\ IF outcome = "ok"
       THEN /\ retry_count' = OnConnected(retry_count)
            /\ pc' = "stream"
            /\ consecFails' = 0
            /\ failsSince' = 0
            /\ last' = [op |-> "connect_ok", event |-> "none", rc |-> retry_count]
       ELSE /\ retry_count' = OnFailure(retry_count).retry_count
            /\ pc' = OnFailure(retry_count).pc
            /\ consecFails' = consecFails + 1
            /\ failsSince' = failsSince + 1
            /\ last' = [op |-> "connect_fail", event |-> "none", rc |-> retry_count]
    /\ request' = [url |-> sse_url(signal_name), headers |-> get_headers(api_key)]
    /\ payload' = EmptyData
    /\ parsed' = Unparsed
    /\ UNCHANGED <<ser, port, current_speed, SERIAL_AVAILABLE, env_port,
                   wire, calls, devlog, elapsed, cleanups>>
    /\ UNCHANGED asideVars

\* time.sleep(self.retry_delay) returns; the loop goes round.
SleepDone ==
    /\ pc = "sleep"
    /\ pc' = "connect"
    /\ elapsed' = Min(elapsed + retry_delay * 20, display_update_interval)
    /\ last' = [op |-> "sleep", event |-> "none", rc |-> retry_count]
    /\ payload' = EmptyData
    /\ parsed' = Unparsed
    /\ UNCHANGED <<retry_count, ser, port, current_speed, SERIAL_AVAILABLE,
                   env_port, wire, calls, devlog, consecFails, failsSince,
                   cleanups>>
    /\ UNCHANGED asideVars
    /\ UNCHANGED request

\* A faulty end of stream that is handled as a failure: counted and slept on.
StreamEndCounted ==
    /\ pc = "stream"
    /\ retry_count' = OnFailure(retry_count).retry_count
    /\ pc' = OnFailure(retry_count).pc
    /\ failsSince' = failsSince + 1
    /\ last' = [op |-> "stream_end", event |-> "none", rc |-> retry_count]
    /\ payload' = EmptyData
    /\ parsed' = Unparsed
    /\ UNCHANGED <<ser, port, current_speed, SERIAL_AVAILABLE,
                   env_port, wire, calls, devlog, consecFails, elapsed,
                   cleanups>>
    /\ UNCHANGED asideVars
    /\ UNCHANGED request

\* The event iterator ends: the server closed the stream.
StreamEnd ==
    /\ pc = "stream"
    /\ pc' = "connect"
    /\ last' = [op |-> "stream_end", event |-> "none", rc |-> retry_count]
    /\ payload' = EmptyData
    /\ parsed' = Unparsed
    /\ UNCHANGED <<retry_count, ser, port, current_speed, SERIAL_AVAILABLE,
                   env_port, wire, calls, devlog, consecFails, elapsed,
                   failsSince, cleanups>>
    /\ UNCHANGED asideVars
    /\ UNCHANGED request

\* The event iterator raises while reading the stream.
StreamError(e) ==
    /\ pc = "stream"
    /\ retry_count' = Handler(e, retry_count).retry_count
    /\ pc' = Handler(e, retry_count).pc
    /\ failsSince' = failsSince + 1
    /\ last' = [op |-> "stream_error", event |-> "none", rc |-> retry_count]
    /\ payload' = EmptyData
    /\ parsed' = Unparsed
    /\ UNCHANGED <<ser, port, current_speed, SERIAL_AVAILABLE, env_port,
                   wire, calls, devlog, consecFails, elapsed, cleanups>>
    /\ UNCHANGED asideVars
    /\ UNCHANGED request

\* The display is left alone.
DisplayUnchanged ==
    UNCHANGED <<ser, port, current_speed, wire, calls, devlog, elapsed>>

\* A faulty event loop that logs the reading and never hands it on.
DeliverDropped(speed, w, enum, open) ==
    /\ DisplayUnchanged
    /\ UNCHANGED <<pc, retry_count, failsSince>>

\* A faulty event loop that hands each reading to the display twice.
DeliverTwice(speed, w, enum, open) ==
    LET u == update_speed(speed, ser, port, env_port, SERIAL_AVAILABLE, w, enum, open)
    IN /\ Len(calls) < MaxCalls
       /\ calls' = calls \o <<speed, speed>>
       /\ current_speed' = Reading(speed)
       /\ ser' = u.ser
       /\ port' = u.port
       /\ wire' = wire \o u.written \o u.written
       /\ devlog' = u.log
       /\ elapsed' = IF u.written # <<>> THEN 0 ELSE elapsed
       /\ UNCHANGED <<pc, retry_count, failsSince>>

\* self.display.update_speed(speed) from the event loop.
Deliver(speed, w, enum, open) ==
    LET u == update_speed(speed, ser, port, env_port, SERIAL_AVAILABLE, w, enum, open)
    IN /\ Len(calls) < MaxCalls
       /\ calls' = Append(calls, speed)
       /\ current_speed' = Reading(speed)
       /\ ser' = u.ser
       /\ port' = u.port
       /\ wire' = wire \o u.written
       /\ devlog' = u.log
       /\ elapsed' = IF u.written # <<>> THEN 0
                     ELSE IF "sleep1" \in {u.log[i] : i \in DOMAIN u.log}
                          THEN display_update_interval
                          ELSE elapsed
       /\ IF u.exc = "None"
          THEN UNCHANGED <<pc, retry_count, failsSince>>
          ELSE /\ retry_count' = Handler(u.exc, retry_count).retry_count
               /\ pc' = Handler(u.exc, retry_count).pc
               /\ failsSince' = failsSince + 1

\* One turn of `for event in client.events()`.
Frame(f, w, enum, open) ==
    /\ pc = "stream"
    /\ last' = [op |-> "frame", event |-> f.event, rc |-> retry_count]
    /\ payload' = f.data
    /\ IF f.data.kind = "empty"
       THEN /\ parsed' = Unparsed
            /\ DisplayUnchanged
            /\ UNCHANGED <<pc, retry_count, failsSince>>
       ELSE LET speed == parse_event_data(f.data)
            IN /\ parsed' = speed
               /\ CASE speed.r = "float" -> Deliver(speed.v, w, enum, open)
                    [] speed.r = "None" ->
                         /\ DisplayUnchanged
                         /\ UNCHANGED <<pc, retry_count, failsSince>>
                    [] OTHER ->
                         /\ DisplayUnchanged
                         /\ retry_count' = Handler(speed.r, retry_count).retry_count
                         /\ pc' = Handler(speed.r, retry_count).pc
                         /\ failsSince' = failsSince + 1
    /\ UNCHANGED <<SERIAL_AVAILABLE, env_port, consecFails, cleanups>>
    /\ UNCHANGED asideVars
    /\ UNCHANGED request

\* 50 ms pass.
Tick ==
    /\ pc \in {"connect", "stream"}
    /\ elapsed < display_update_interval
    /\ elapsed' = elapsed + 1
    /\ UNCHANGED <<pc, retry_count, ser, port, current_speed, SERIAL_AVAILABLE,
                   env_port, wire, calls, devlog, payload, parsed, last,
                   consecFails, failsSince, cleanups>>
    /\ UNCHANGED asideVars
    /\ UNCHANGED request

\* A faulty handling of KeyboardInterrupt during the retry sleep: it is
\* swallowed and the loop goes on to the next attempt.
InterruptSleepSwallowed ==
    /\ pc = "sleep"
    /\ pc' = "connect"
    /\ last' = [op |-> "interrupt", event |-> "none", rc |-> retry_count]
    /\ elapsed' = display_update_interval
    /\ UNCHANGED <<retry_count, ser, port, current_speed, SERIAL_AVAILABLE,
                   env_port, wire, calls, devlog, payload, parsed, consecFails,
                   failsSince, cleanups>>
    /\ UNCHANGED asideVars
    /\ UNCHANGED request

\* KeyboardInterrupt while requests.get or the event iterator blocks:
\* `except KeyboardInterrupt: break`, then display.cleanup() after the loop,
\* and connect_and_display returns.
InterruptRead(close) ==
    /\ pc \in {"connect", "stream"}
    /\ LET c == cleanup(ser, close)
       IN /\ ser' = c.ser
          /\ devlog' = c.log
          /\ pc' = IF c.exc = "None" THEN "done" ELSE "raised"
    /\ cleanups' = cleanups + 1
    /\ last' = [op |-> "interrupt", event |-> "none", rc |-> retry_count]
    /\ UNCHANGED <<retry_count, port, current_speed, SERIAL_AVAILABLE, env_port,
                   wire, calls, payload, parsed, consecFails, elapsed,
                   failsSince>>
    /\ UNCHANGED asideVars
    /\ UNCHANGED request

\* KeyboardInterrupt during time.sleep(retry_delay): the sleep runs inside an
\* except handler, so the interrupt leaves connect_and_display as an exception
\* and main() catches it; the line after the loop is not reached.
InterruptSleep ==
    /\ pc = "sleep"
    /\ pc' = "interrupted"
    /\ last' = [op |-> "interrupt", event |-> "none", rc |-> retry_count]
    /\ UNCHANGED <<retry_count, ser, port, current_speed, SERIAL_AVAILABLE,
                   env_port, wire, calls, devlog, payload, parsed, consecFails,
                   elapsed, failsSince, cleanups>>
    /\ UNCHANGED asideVars
    /\ UNCHANGED request

\* The enumeration is read only when no port is configured or retained.
EnumerationsFor(selfPort, envPort) ==
    IF selfPort = NoPort /\ envPort = NoPort THEN Enumerations ELSE {NoEnumeration}

\* What the device does during one update_speed call: how the write ends and,
\* when the call goes on to reconnect, what the enumeration and the open give.
\* Only the outcomes the call reads are drawn.
DeviceInputs(curSer, selfPort, envPort) ==
    IF curSer = "None"
    THEN { [w |-> "ok", enum |-> NoEnumeration, open |-> "ok"] }
    ELSE { [w |-> w, enum |-> NoEnumeration, open |-> "ok"] : w \in {"ok", "Exception"} }
         \cup { [w |-> "SerialException", enum |-> enum, open |-> open] :
                  enum \in EnumerationsFor(selfPort, envPort), open \in OpenOutcomes }

\* HUDClient(): PicoScrollDisplay(port=os.getenv('PICO_SERIAL_PORT')) runs
\* _init_serial; connect_and_display then starts with retry_count = 0.
Init ==
    /\ pc = "connect"
    /\ retry_count = 0
    /\ SERIAL_AVAILABLE \in BOOLEAN
    /\ env_port \in {NoPort, OverridePath}
    /\ \E enum \in EnumerationsFor(env_port, env_port), open \in OpenOutcomes :
         LET r == _init_serial("None", env_port, env_port, SERIAL_AVAILABLE, enum, open)
         IN /\ ser = r.ser
            /\ port = r.port
            /\ devlog = r.log
    /\ current_speed = PyNone
    /\ wire = <<>>
    /\ calls = <<>>
    /\ payload = EmptyData
    /\ parsed = Unparsed
    /\ last = [op |-> "init", event |-> "none", rc |-> 0]
    /\ consecFails = 0
    /\ elapsed = display_update_interval
    /\ failsSince = 0
    /\ cleanups = 0
    /\ request = NoRequest
    /\ AsideInit

Next ==
    \/ \E outcome \in ConnectOutcomes : Connect(outcome)
    \/ SleepDone
    \/ StreamEnd
    \/ \E e \in StreamErrors : StreamError(e)
    \/ \E f \in Frames, d \in DeviceInputs(ser, port, env_port) :
         Frame(f, d.w, d.enum, d.open)
    \/ \E close \in CloseInputs(ser) : InterruptRead(close)
    \/ InterruptSleep
    \/ Tick

Spec == Init /\ [][Next]_vars

----------------------------------------------------------------------------
(* parse_event_data on its own: one call on any payload *)

InitParse ==
    /\ payload \in AllPayloads
    /\ parsed = Unparsed
    /\ pc = "connect"
    /\ retry_count = 0
    /\ SERIAL_AVAILABLE = TRUE
    /\ env_port = NoPort
    /\ ser = "None"
    /\ port = NoPort
    /\ devlog = <<>>
    /\ current_speed = PyNone
    /\ wire = <<>>
    /\ calls = <<>>
    /\ last = [op |-> "init", event |-> "none", rc |-> 0]
    /\ consecFails = 0
    /\ elapsed = display_update_interval
    /\ failsSince = 0
    /\ cleanups = 0
    /\ request = NoRequest
    /\ AsideInit

ParseCall ==
    /\ parsed = Unparsed
    /\ parsed' = parse_event_data(payload)
    /\ last' = [op |-> "parse", event |-> "none", rc |-> 0]
    /\ UNCHANGED <<pc, retry_count, ser, port, current_speed, SERIAL_AVAILABLE,
                   env_port, wire, calls, devlog, payload, consecFails, elapsed,
                   failsSince, cleanups>>
    /\ UNCHANGED asideVars
    /\ UNCHANGED request

NextParse == ParseCall

ParseSpec == InitParse /\ [][NextParse]_vars

----------------------------------------------------------------------------
(* The serial display on its own: any sequence of update_speed and cleanup
   calls on a freshly constructed PicoScrollDisplay *)

\* The values handed to update_speed, in tenths: 30.0, 42.7 and -1.5.
Speeds == {300, 427, -15}

\* PicoScrollDisplay(port=os.getenv('PICO_SERIAL_PORT')): _init_serial.
InitDisplay ==
    /\ pc = "display"
    /\ retry_count = 0
    /\ SERIAL_AVAILABLE \in BOOLEAN
    /\ env_port \in {NoPort, OverridePath}
    /\ \E enum \in EnumerationsFor(env_port, env_port), open \in OpenOutcomes :
         LET r == _init_serial("None", env_port, env_port, SERIAL_AVAILABLE, enum, open)
         IN /\ ser = r.ser
            /\ port = r.port
            /\ devlog = r.log
    /\ current_speed = PyNone
    /\ wire = <<>>
    /\ calls = <<>>
    /\ payload = EmptyData
    /\ parsed = Unparsed
    /\ last = [op |-> "init", event |-> "none", rc |-> 0]
    /\ consecFails = 0
    /\ elapsed = display_update_interval
    /\ failsSince = 0
    /\ cleanups = 0
    /\ request = NoRequest
    /\ AsideInit

\* display.update_speed(speed)
UpdateCall(speed, w, enum, open) ==
    /\ pc = "display"
    /\ Deliver(speed, w, enum, open)
    /\ last' = [op |-> "update_speed", event |-> "none", rc |-> 0]
    /\ UNCHANGED <<SERIAL_AVAILABLE, env_port, payload, parsed, consecFails,
                   cleanups>>
    /\ UNCHANGED asideVars
    /\ UNCHANGED request

\* display.cleanup()
CleanupCall(close) ==
    /\ pc = "display"
    /\ cleanups < MaxCleanups
    /\ LET c == cleanup(ser, close)
       IN /\ ser' = c.ser
          /\ devlog' = c.log
          /\ pc' = IF c.exc = "None" THEN "display" ELSE "raised"
    /\ cleanups' = cleanups + 1
    /\ last' = [op |-> "cleanup", event |-> "none", rc |-> 0]
    /\ UNCHANGED <<retry_count, port, current_speed, SERIAL_AVAILABLE, env_port,
                   wire, calls, payload, parsed, consecFails, elapsed,
                   failsSince>>
    /\ UNCHANGED asideVars
    /\ UNCHANGED request

NextDisplay ==
    \/ \E speed \in Speeds, d \in DeviceInputs(ser, port, env_port) :
         UpdateCall(speed, d.w, d.enum, d.open)
    \/ \E close \in CloseInputs(ser) : CleanupCall(close)

DisplaySpec == InitDisplay /\ [][NextDisplay]_vars

----------------------------------------------------------------------------
(* Port location and the construction of the display, for every
   configuration and every set of attached ports *)

\* The display object exists with its port argument stored; the ports
\* attached are those of comports.
InitPort ==
    /\ pc = "new"
    /\ HostOff
    /\ FirmwareBoot(display_update_interval)
    /\ comports \in Enumerations
    /\ located = NotLocated
    /\ signal_name = DefaultSignal
    /\ event_data = NoFrame
    /\ api_key = NoKey

\* The configuration is read: PICO_SERIAL_PORT, the constructor's port
\* argument, and whether pyserial could be imported.
Configure(portArg, envPort, avail) ==
    /\ pc = "new"
    /\ pc' = "configured"
    /\ port' = portArg
    /\ env_port' = envPort
    /\ SERIAL_AVAILABLE' = avail
    /\ UNCHANGED <<retry_count, ser, current_speed, wire, calls, devlog, payload,
                   parsed, last, consecFails, elapsed, failsSince, cleanups,
                   asideVars>>
    /\ UNCHANGED request

\* self._find_pico_port() called on its own, and nothing after it.
Locate ==
    /\ pc = "configured"
    /\ pc' = "located"
    /\ located' = [called |-> TRUE,
                   port |-> _find_pico_port(port, env_port, SERIAL_AVAILABLE,
                                            comports)]
    /\ devlog' = IF Enumerates(port, env_port, SERIAL_AVAILABLE)
                 THEN <<"comports">> ELSE <<>>
    /\ UNCHANGED <<retry_count, ser, port, current_speed, SERIAL_AVAILABLE,
                   env_port, wire, calls, payload, parsed, last, consecFails,
                   elapsed, failsSince, cleanups, firmwareVars, comports,
                   signal_name, event_data, api_key>>
    /\ UNCHANGED request

\* PicoScrollDisplay.__init__ (from HUDClient.__init__).
Construct(open) ==
    /\ pc = "configured"
    /\ LET d == PicoScrollDisplay(port, env_port, SERIAL_AVAILABLE, comports, open)
       IN /\ ser' = d.ser
          /\ port' = d.port
          /\ devlog' = d.log
          /\ pc' = IF d.exc = "None" THEN "constructed" ELSE "raised"
    /\ last' = [op |-> "construct", event |-> "none", rc |-> 0]
    /\ UNCHANGED <<retry_count, current_speed, SERIAL_AVAILABLE, env_port, wire,
                   calls, payload, parsed, consecFails, elapsed, failsSince,
                   cleanups, asideVars>>
    /\ UNCHANGED request

\* client.connect_and_display() is entered: retry_count = 0 and the first
\* turn of the while loop.
StartConsumer ==
    /\ pc = "constructed"
    /\ pc' = "connect"
    /\ retry_count' = 0
    /\ last' = [op |-> "start", event |-> "none", rc |-> 0]
    /\ UNCHANGED <<ser, port, current_speed, SERIAL_AVAILABLE, env_port, wire,
                   calls, devlog, payload, parsed, consecFails, elapsed,
                   failsSince, cleanups, asideVars>>
    /\ UNCHANGED request

NextPort ==
    \/ \E portArg \in {NoPort, OverridePath}, envPort \in {NoPort, OverridePath},
          avail \in BOOLEAN : Configure(portArg, envPort, avail)
    \/ Locate
    \/ \E open \in OpenOutcomes : Construct(open)
    \/ StartConsumer

PortSpec == InitPort /\ [][NextPort]_vars

----------------------------------------------------------------------------
(* The configured signal: SIGNAL_NAME, a frame carrying it, and the parser *)

\* The values a frame carries for the signal, in tenths.
SignalValues == { 10 * k : k \in 1..MaxSignalValue }

\* json.loads of the frame {key: n}, as parse_event_data sees it: the three
\* keys it asks for; any other key is never read.
Decode(ev) ==
    Obj(IF ev.key = "VDM_VehicleSpeed" THEN JVal("num", ev.n) ELSE Absent,
        IF ev.key = "value" THEN JVal("num", ev.n) ELSE Absent,
        IF ev.key = "speed" THEN JVal("num", ev.n) ELSE Absent)

\* HUDClient.__init__ has read SIGNAL_NAME.
InitSignal ==
    /\ pc = "stream"
    /\ HostOff
    /\ FirmwareBoot(display_update_interval)
    /\ comports = NoEnumeration
    /\ located = NotLocated
    /\ signal_name \in SignalNames
    /\ event_data = NoFrame
    /\ api_key = NoKey

\* The stream, requested at sse_url for the signal, sends a frame whose data
\* is {signal_name: n}.
ReceiveSignal(n) ==
    /\ pc = "stream"
    /\ event_data = NoFrame
    /\ event_data' = [key |-> signal_name, n |-> n]
    /\ request' = [url |-> sse_url(signal_name), headers |-> get_headers(api_key)]
    /\ payload' = Decode(event_data')
    /\ UNCHANGED <<pc, retry_count, ser, port, current_speed, SERIAL_AVAILABLE,
                   env_port, wire, calls, devlog, parsed, last, consecFails,
                   elapsed, failsSince, cleanups, firmwareVars, comports,
                   located, signal_name, api_key>>

\* speed = self.parse_event_data(event.data)
ParseSignal ==
    /\ pc = "stream"
    /\ event_data # NoFrame
    /\ parsed = Unparsed
    /\ parsed' = parse_event_data(payload)
    /\ last' = [op |-> "parse", event |-> "message", rc |-> 0]
    /\ UNCHANGED <<pc, retry_count, ser, port, current_speed, SERIAL_AVAILABLE,
                   env_port, wire, calls, devlog, payload, consecFails, elapsed,
                   failsSince, cleanups, request, asideVars>>

NextSignal ==
    \/ \E n \in SignalValues : ReceiveSignal(n)
    \/ ParseSignal

SignalSpec == InitSignal /\ [][NextSignal]_vars

----------------------------------------------------------------------------
(* The stream consumer under every API_KEY setting, with the display on a
   configured port *)

InitHeaders ==
    /\ pc = "connect"
    /\ retry_count = 0
    /\ SERIAL_AVAILABLE = TRUE
    /\ env_port = OverridePath
    /\ \E open \in OpenOutcomes :
         LET d == PicoScrollDisplay(env_port, env_port, SERIAL_AVAILABLE,
                                    NoEnumeration, open)
         IN /\ ser = d.ser
            /\ port = d.port
            /\ devlog = d.log
    /\ current_speed = PyNone
    /\ wire = <<>>
    /\ calls = <<>>
    /\ payload = EmptyData
    /\ parsed = Unparsed
    /\ last = [op |-> "init", event |-> "none", rc |-> 0]
    /\ consecFails = 0
    /\ elapsed = display_update_interval
    /\ failsSince = 0
    /\ cleanups = 0
    /\ request = NoRequest
    /\ FirmwareBoot(display_update_interval)
    /\ comports = NoEnumeration
    /\ located = NotLocated
    /\ signal_name = DefaultSignal
    /\ event_data = NoFrame
    /\ api_key \in ApiKeys

HeaderSpec == InitHeaders /\ [][Next]_vars

----------------------------------------------------------------------------
(* The device firmware's loop: code.py main, from the serial input to
   display_speed *)

\* The complete lines the host may send: "10", "20" and a line that is no
\* number.
SerialLines == {JVal("num", 100), JVal("num", 200), JVal("str", 0)}

\* What one turn of the loop finds in its buffer: no data, or some lines.
Chunks == UNION { [1..n -> SerialLines] : n \in 0..MaxLines }

\* float(line)
LineToFloat(l) == IF l.t = "num" THEN Reading(l.n) ELSE Raises("ValueError")

\* A faulty line loop that keeps the first value it holds until that value
\* is displayed.
RECURSIVE AbsorbFirst(_, _, _)
AbsorbFirst(pending, lines, i) ==
    IF i > Len(lines) THEN pending
    ELSE LET speed == LineToFloat(lines[i])
         IN IF speed.r = "float" /\ pending = PyNone
            THEN AbsorbFirst(speed, lines, i + 1)
            ELSE AbsorbFirst(pending, lines, i + 1)

\* `for line in lines_to_process`: pending_speed after lines i.. of the
\* chunk; a line that is no number is skipped.
RECURSIVE Absorb(_, _, _)
Absorb(pending, lines, i) ==
    IF i > Len(lines) THEN pending
    ELSE LET speed == LineToFloat(lines[i])
         IN IF speed.r = "float" /\ speed # pending
            THEN Absorb(speed, lines, i + 1)
            ELSE Absorb(pending, lines, i + 1)

\* A faulty throttle check without the comparison with last_speed.
ShouldForwardNoDedup(pending, lastSpeed, lastUpdate, t) ==
    /\ pending # PyNone
    /\ t - lastUpdate >= display_update_interval

\* The throttle check after lines were read.
ShouldForward(pending, lastSpeed, lastUpdate, t) ==
    /\ pending # PyNone
    /\ pending # lastSpeed
    /\ t - lastUpdate >= display_update_interval

\* A faulty loop whose branch for "no data" never looks at pending_speed.
IdleShouldForwardNever(pending, lastSpeed, lastUpdate, t) == FALSE

\* The throttle check of the branch for "no data available".
IdleShouldForward(pending, lastSpeed, lastUpdate, t) ==
    /\ pending # PyNone /\ pending # lastSpeed
    /\ t - lastUpdate >= display_update_interval

\* A faulty bookkeeping that leaves last_display_update as it was.
AfterForwardStaleTime(pending, lastUpdate, t) ==
    [last_display_update |-> lastUpdate, last_speed |-> pending,
     pending_speed |-> PyNone]

\* The three assignments that follow display_speed(display, pending_speed).
AfterForward(pending, lastUpdate, t) ==
    [last_display_update |-> t, last_speed |-> pending,
     pending_speed |-> PyNone]

\* The latest valid value among what has been read.
RECURSIVE LatestValid(_, _, _)
LatestValid(prev, lines, i) ==
    IF i > Len(lines) THEN prev
    ELSE LatestValid(IF lines[i].t = "num" THEN Reading(lines[i].n) ELSE prev,
                     lines, i + 1)

\* One turn of `while True`: read what is available, take in the complete
\* lines, then the throttle check (of the data branch or of the idle branch)
\* and, when it passes, display_speed and the bookkeeping.
LoopIteration(lines) ==
    LET p == Absorb(pending_speed, lines, 1)
        go == IF lines # <<>>
              THEN ShouldForward(p, last_speed, last_display_update, now)
              ELSE IdleShouldForward(p, last_speed, last_display_update, now)
        a == AfterForward(p, last_display_update, now)
    IN /\ pc = "firmware"
       /\ latest' = LatestValid(latest, lines, 1)
       /\ IF go
          THEN /\ forwards' = Append(forwards, [v |-> p.v, t |-> now])
               /\ last_display_update' = a.last_display_update
               /\ last_speed' = a.last_speed
               /\ pending_speed' = a.pending_speed
          ELSE /\ pending_speed' = p
               /\ UNCHANGED <<forwards, last_display_update, last_speed>>
       /\ UNCHANGED <<now, hostVars, comports, located, signal_name,
                      event_data, api_key>>

\* Time passes on the device (the loop's own work and its time.sleep(0.01)).
Advance ==
    /\ pc = "firmware"
    /\ now < MaxTime
    /\ now' = now + 1
    /\ UNCHANGED <<pending_speed, last_speed, last_display_update, forwards,
                   latest, hostVars, comports, located, signal_name,
                   event_data, api_key>>

\* The firmware has booted: the loop starts some time after power-up.
InitThrottle ==
    /\ pc = "firmware"
    /\ HostOff
    /\ \E t \in {display_update_interval, display_update_interval + 1} :
         FirmwareBoot(t)
    /\ comports = NoEnumeration
    /\ located = NotLocated
    /\ signal_name = DefaultSignal
    /\ event_data = NoFrame
    /\ api_key = NoKey

NextThrottle ==
    \/ \E lines \in Chunks : LoopIteration(lines)
    \/ Advance

ThrottleSpec == InitThrottle /\ [][NextThrottle]_vars

\* The loop keeps turning with nothing to read, and time keeps passing.
ThrottleFairSpec ==
    ThrottleSpec /\ WF_vars(LoopIteration(<<>>)) /\ WF_vars(Advance)

----------------------------------------------------------------------------
(* Properties *)

\* The members of a sequence.
Range(s) == { s[i] : i \in DOMAIN s }

\* The step is a call of display.update_speed.
IsUpdateSpeedStep == Len(calls') = Len(calls) + 1

\* A display call opened (or tried to open) the serial port.
HasOpen(log) == Range(log) \cap {"open_ok", "open_fail"} # {}

\* C1: after max_retries consecutive failed connection attempts the consumer
\* has stopped with the error raised: the count of consecutive failed
\* attempts never exceeds max_retries, at max_retries the consumer is stopped,
\* and once it is stopped nothing happens any more: no connection attempt, no
\* delivery to the display, no serial write.
C1_StopsAfterMaxRetries ==
    /\ [](consecFails <= max_retries)
    /\ [](consecFails = max_retries => pc = "raised")
    /\ [][pc = "raised" =>
            UNCHANGED <<pc, retry_count, consecFails, last, calls, wire, ser>>]_vars

C1_Witness ==
    pc = "raised" /\ consecFails = max_retries /\ last.op = "connect_fail"

\* C2: right after a successful connection attempt, whatever the retry counter
\* was before it, the counter is 0 and the consumer is streaming with no frame
\* processed yet; the counter is 0 whenever the consumer is streaming.
C2_ConnectResetsRetryCount ==
    /\ last.op = "connect_ok" => (retry_count = 0 /\ pc = "stream")
    /\ pc = "stream" => retry_count = 0

\* three failed attempts, then a success
C2_Witness ==
    last.op = "connect_ok" /\ last.rc = 3 /\ retry_count = 0 /\ pc = "stream"

\* A payload that yields no reading, as the claim lists them: not JSON, JSON
\* without a recognized field (of any shape), or a first recognized field that
\* holds no number.
FirstPresent(p) ==
    IF p.VDM_VehicleSpeed.t # "absent" THEN p.VDM_VehicleSpeed
    ELSE IF p.value.t # "absent" THEN p.value
    ELSE p.speed

YieldsNoReading(p) ==
    \/ p.kind \in {"malformed", "nonobject"}
    \/ p.kind = "object" /\ FirstPresent(p).t # "num"

\* The step is the event loop's turn for frame f.
FrameStep(f) ==
    \E d \in DeviceInputs(ser, port, env_port) : Frame(f, d.w, d.enum, d.open)

\* C3: a frame whose payload yields no reading is skipped: nothing is
\* delivered to the display or written, the consumer stays streaming and the
\* retry counter is not incremented.
C3_ParseFailureSkipsFrame ==
    [][\A f \in Frames :
         (YieldsNoReading(f.data) /\ FrameStep(f)) =>
            /\ pc' = "stream"
            /\ retry_count' = retry_count
            /\ calls' = calls
            /\ wire' = wire]_vars

\* The recognized keys an object payload holds.
PresentKeys(p) ==
    { k \in {"VDM_VehicleSpeed", "value", "speed"} : p[k].t # "absent" }

\* C4: an object holding exactly one recognized key, with a number n (0
\* included), parses to the reading n.
C4_SingleNumericKeyParses ==
    (/\ parsed # Unparsed
     /\ payload.kind = "object"
     /\ Cardinality(PresentKeys(payload)) = 1
     /\ FirstPresent(payload).t = "num")
    => parsed = Reading(FirstPresent(payload).n)

\* C5: with more than one recognized key in the object, the result is that of
\* the first key present in the order VDM_VehicleSpeed, value, speed, whatever
\* it holds.
C5_FirstPresentKeyWins ==
    (/\ parsed # Unparsed
     /\ payload.kind = "object"
     /\ Cardinality(PresentKeys(payload)) > 1)
    => parsed = (IF FirstPresent(payload).t = "null"
                 THEN PyNone
                 ELSE ToFloat(FirstPresent(payload)))

\* C6: no line is written whose value equals that of the line written before
\* it.
C6_NoRepeatedLine ==
    \A i \in 1..(Len(wire) - 1) : wire[i] # wire[i + 1]

\* C7: a line is written to the serial device only when at least the throttle
\* interval has passed since the line before it.
C7_WritesSpacedByInterval ==
    [][(Len(wire') > Len(wire) /\ Len(wire) > 0)
         => elapsed >= display_update_interval]_vars

\* The latest display call had its write fail.
WriteFailed(log) ==
    Range(log) \cap {"write_SerialException", "write_Exception"} # {}

C9_DisconnectedCallReconnects ==
    [][(ser = "None" /\ IsUpdateSpeedStep) => HasOpen(devlog')]_vars

\* The latest display call met a device error.
DeviceError(log) ==
    Range(log) \cap {"unavailable", "write_SerialException", "write_Exception",
                     "open_fail", "no_port"} # {}

\* C10: an update_speed call that meets a device error returns normally: the
\* consumer is still streaming on the same connection and the retry counter
\* is unchanged.
C10_DeviceErrorsStayInDisplay ==
    [][(IsUpdateSpeedStep /\ DeviceError(devlog'))
         => (pc' = "stream" /\ pc = "stream" /\ retry_count' = retry_count)]_vars

C10_Witness ==
    /\ last.op = "frame"
    /\ parsed.r = "float"
    /\ "write_SerialException" \in Range(devlog)
    /\ "open_fail" \in Range(devlog)
    /\ pc = "stream"
    /\ retry_count = 0

----------------------------------------------------------------------------
(* Shutdown *)

\* connect_and_display has ended: by returning, by raising, or by an
\* interrupt that left it as an exception.
Stopped == pc \in {"done", "raised", "interrupted"}

\* C11 (as stated): whenever the pipeline has shut down, by a stop signal
\* during the stream read, by a stop signal during the retry sleep, or by
\* exhaustion of the retry budget, cleanup() has been called exactly once.
C11_CleanupOnceOnEveryShutdown ==
    Stopped => cleanups = 1

\* C12: a stop signal, whether it arrives during the blocking read or during
\* the retry sleep and whatever the retry counter is, takes the consumer
\* straight to the stopped state, and a stopped consumer makes no further
\* connection attempt (it takes no further step at all).
C12_InterruptStopsConsumer ==
    [][ /\ (last'.op = "interrupt" /\ pc \in {"connect", "stream", "sleep"})
           => (pc' \in {"done", "interrupted"} /\ retry_count' = retry_count)
        /\ Stopped => (pc' = pc /\ last' = last) ]_vars

\* C12 witness: stopped during a retry sleep with three failures counted.
C12_Witness ==
    /\ pc = "interrupted"
    /\ last.op = "interrupt"
    /\ retry_count = 3

----------------------------------------------------------------------------
(* The line on the wire *)

\* The integer part of a reading in tenths: the integer nearest to zero-ward
\* of it, found by search rather than by division.
IntegerPart(n) ==
    CHOOSE t \in -50..50 :
        IF n >= 0 THEN t * 10 <= n /\ n < (t + 1) * 10
                  ELSE n <= t * 10 /\ (t - 1) * 10 < n

\* C13: an update_speed call made while the serial channel is connected and
\* whose write succeeds appends exactly one line to the wire, and that line
\* is the integer part of the value, truncated toward zero (an element of
\* wire stands for that integer's decimal digits followed by one newline).
C13_OneTruncatedLinePerWrite ==
    [][(IsUpdateSpeedStep /\ ser = "Serial" /\ "write_ok" \in Range(devlog'))
         => wire' = Append(wire, IntegerPart(calls'[Len(calls')]))]_vars

\* C13 witness: -1.5 was sent as the line "-1".
C13_Witness ==
    /\ calls # <<>>
    /\ calls[Len(calls)] = -15
    /\ devlog = <<"write_ok">>
    /\ wire # <<>>
    /\ wire[Len(wire)] = -1

----------------------------------------------------------------------------
(* The retry budget *)

\* C14: connect_and_display ends with an error only when max_retries
\* failures have occurred since the last successful connection, and it ends
\* otherwise only on a stop signal: below the budget no transport, parse or
\* device error makes it raise or stop.
C14_FatalOnlyWhenBudgetExhausted ==
    /\ pc = "raised" => failsSince >= max_retries
    /\ pc \in {"done", "interrupted"} => last.op = "interrupt"

\* C14 witness: the budget ran out after readings had been delivered.
C14_Witness ==
    /\ pc = "raised"
    /\ failsSince = max_retries
    /\ calls # <<>>

\* The step is a failure handled by one of the except handlers.
FailureStep == failsSince' = failsSince + 1

\* C15: each failure increments the retry counter by exactly one; below
\* max_retries the consumer then sleeps, and the sleep is followed by the
\* next connection attempt (or a stop) and by nothing else; at max_retries
\* the error is raised without sleeping and nothing follows it. A connection
\* attempt starts only from the connecting state, never from the sleep or
\* after the raise.
C15_CountThenSleepOrRaise ==
    [][ /\ FailureStep =>
             /\ retry_count' = retry_count + 1
             /\ pc' = IF retry_count' < max_retries THEN "sleep" ELSE "raised"
        /\ pc = "sleep" =>
             /\ pc' \in {"connect", "interrupted"}
             /\ retry_count' = retry_count
             /\ failsSince' = failsSince
        /\ pc = "raised" => pc' = "raised"
        /\ (last'.op \in {"connect_ok", "connect_fail"} /\ last' # last)
             => pc = "connect" ]_vars

\* C15 witness: a stream error was counted and the consumer sleeps.
C15_Witness ==
    /\ pc = "sleep"
    /\ last.op = "stream_error"
    /\ retry_count = 1
    /\ failsSince = 1

----------------------------------------------------------------------------
(* Frames *)

\* C16: right after a frame's payload parsed to a reading, the retry
\* counter is 0 and update_speed has been called exactly once more, with
\* that reading.
C16_ParsedReadingDeliveredOnce ==
    [][\A f \in Frames :
         (/\ parsed'.r = "float"
          /\ payload' = f.data
          /\ last'.event = f.event
          /\ FrameStep(f))
           => (retry_count' = 0 /\ calls' = Append(calls, parsed'.v))]_vars

\* C16 witness: the frame {"speed": 42.7} was parsed and delivered.
C16_Witness ==
    /\ last.op = "frame"
    /\ parsed = Reading(427)
    /\ calls # <<>>
    /\ calls[Len(calls)] = 427
    /\ retry_count = 0

\* C17 (as stated): a keep-alive frame, whatever its data field contains,
\* leads to no update_speed call and no serial write and changes neither the
\* retry counter nor the connection state.
C17_KeepAliveIsNoOp ==
    [][\A f \in Frames :
         (f.event = "keep-alive" /\ FrameStep(f))
           => (calls' = calls /\ wire' = wire /\ retry_count' = retry_count
               /\ pc' = pc)]_vars

----------------------------------------------------------------------------
(* cleanup *)

\* The step is a cleanup() call.
CleanupStep == cleanups' = cleanups + 1

\* C18: the first cleanup() leaves the display without a handle, closing
\* the handle it held (whether or not that close fails) and closing nothing
\* when it held none; every further cleanup() performs no close and changes
\* nothing; no cleanup() raises.
C18_CleanupIdempotent ==
    [][CleanupStep =>
         /\ ser' = "None"
         /\ pc' = pc
         /\ wire' = wire
         /\ ser = "None" => devlog' = <<>>
         /\ ser # "None" => devlog' \in {<<"close">>, <<"close_fail">>}
         /\ cleanups >= 1 => (ser = "None" /\ devlog' = <<>>)]_vars

\* C18 witness: a second cleanup() on a display that had been writing.
C18_Witness ==
    /\ cleanups = 2
    /\ last.op = "cleanup"
    /\ wire # <<>>
    /\ ser = "None"
    /\ devlog = <<>>

----------------------------------------------------------------------------
(* Write failures *)

\* The write attempts a call made.
Writes(log) ==
    SelectSeq(log, LAMBDA e : e \in {"write_ok", "write_SerialException",
                                      "write_Exception"})

\* The port opens a call attempted.
Opens(log) == SelectSeq(log, LAMBDA e : e \in {"open_ok", "open_fail"})

C20_WriteFailureDropsHandle ==
    [][(IsUpdateSpeedStep /\ WriteFailed(devlog'))
         => (ser' = "None" \/ "close" \in Range(devlog'))]_vars

----------------------------------------------------------------------------
(* The firmware's throttle *)

\* The step makes a display_speed call.
ForwardStep == Len(forwards') = Len(forwards) + 1

\* The latest display_speed call.
LastForward == forwards[Len(forwards)]

\* C21: a turn of the loop forwards if and only if the value it then holds
\* (the latest valid value received) differs from the value last forwarded
\* and at least display_update_interval has passed since the last forward;
\* hence any two consecutive forwards carry different values and are at
\* least display_update_interval apart.
C21_ForwardIffChangedAndDue ==
    /\ [][\A lines \in Chunks :
            LoopIteration(lines) =>
              (ForwardStep <=>
                 /\ latest' # PyNone
                 /\ latest' # last_speed
                 /\ (forwards = <<>>
                       \/ now - LastForward.t >= display_update_interval))]_vars
    /\ [](\A i \in 1..(Len(forwards) - 1) :
            /\ forwards[i].v # forwards[i + 1].v
            /\ forwards[i + 1].t - forwards[i].t >= display_update_interval)

\* C21 witness: three forwards have been made.
C21_Witness ==
    /\ Len(forwards) = 3
    /\ pending_speed # PyNone

\* C22: a changed value that arrives before the interval has passed is held
\* in pending_speed; as long as no other value replaces it, it is forwarded
\* once the interval has passed (the clock is followed up to MaxTime, so the
\* value must arrive an interval before that), and a forward empties
\* pending_speed, so that the value is not forwarded a second time.
C22_PendingEventuallyForwarded ==
    /\ []((latest # PyNone /\ latest # last_speed) => pending_speed = latest)
    /\ [](pending_speed = PyNone => latest = last_speed)
    /\ [][ForwardStep => pending_speed' = PyNone]_vars
    /\ \A v \in {l.n : l \in {x \in SerialLines : x.t = "num"}} :
         (latest = Reading(v) /\ last_speed # Reading(v)
            /\ now + display_update_interval <= MaxTime)
         ~> (last_speed = Reading(v) \/ latest # Reading(v))

\* C22 witness: 20 is held back because 10 was forwarded less than an
\* interval ago.
C22_Witness ==
    /\ pending_speed = Reading(200)
    /\ last_speed = Reading(100)
    /\ now - last_display_update < display_update_interval

\* C23: last_speed and last_display_update are always the value and the
\* time of the latest display_speed call (None and 0 before the first), and
\* they change only in a step that makes a display_speed call, which changes
\* both.
C23_ThrottleStateTracksForwards ==
    /\ [](IF forwards = <<>>
          THEN last_speed = PyNone /\ last_display_update = 0
          ELSE /\ last_speed = Reading(LastForward.v)
               /\ last_display_update = LastForward.t)
    /\ [][(ForwardStep
             \/ last_speed' # last_speed
             \/ last_display_update' # last_display_update)
           => (/\ ForwardStep
               /\ last_speed' # last_speed
               /\ last_display_update' # last_display_update)]_vars

\* C23 witness: a second forward has moved both.
C23_Witness ==
    /\ Len(forwards) = 2
    /\ last_speed = Reading(forwards[2].v)
    /\ last_display_update = forwards[2].t
    /\ forwards[2].t > forwards[1].t

\* C24: every forwarded value is the latest valid value received at the
\* time of the forward; a value that was replaced before it could be
\* forwarded is never forwarded.
C24_ForwardsLatestValue ==
    [][ForwardStep =>
         /\ latest' # PyNone
         /\ forwards'[Len(forwards')].v = latest'.v]_vars

\* C24 witness: the claim's example. 10 is forwarded when it arrives, 20
\* arrives within the interval and is forwarded when the interval is over.
C24_Witness ==
    \E t \in 0..MaxTime :
        forwards = << [v |-> 100, t |-> t],
                      [v |-> 200, t |-> t + display_update_interval] >>

----------------------------------------------------------------------------
(* Port location *)

\* The override in force: the constructor's argument, else the environment
\* variable, else none.
Override == IF port # NoPort THEN port ELSE env_port

\* The port meets one of the two heuristics.
Qualifies(info) ==
    \/ \E id \in pico_identifiers : id \in info.description
    \/ info.vid = PicoVid

\* C25: with an override configured, port location returns the override
\* itself, whether or not such a port is attached, and does not enumerate
\* the ports.
C25_OverrideReturnedUnchecked ==
    (located.called /\ Override # NoPort)
      => (located.port = Override /\ devlog = <<>>)

\* C25 witness: the override is returned although other ports, one of them a
\* Pico, are attached.
C25_Witness ==
    /\ located.called
    /\ port = NoPort
    /\ env_port = OverridePath
    /\ located.port = OverridePath
    /\ Len(comports.ports) = 2
    /\ Qualifies(comports.ports[1])

\* C26: without an override, with pyserial present and an enumeration that
\* succeeds, port location returns the device of the first qualifying port
\* in enumeration order, and none exactly when no port qualifies.
C26_FirstQualifyingPortWins ==
    (located.called /\ Override = NoPort /\ SERIAL_AVAILABLE /\ ~comports.raises)
      => LET ports == comports.ports
             hits == { i \in DOMAIN ports : Qualifies(ports[i]) }
         IN IF hits = {}
            THEN located.port = NoPort
            ELSE \E i \in hits :
                   /\ \A j \in hits : i <= j
                   /\ located.port = ports[i].device

\* C26 witness: two qualifying ports, the first by its vendor ID only, the
\* second by its description; the first is returned.
C26_Witness ==
    /\ located.called
    /\ Override = NoPort
    /\ Len(comports.ports) = 2
    /\ comports.ports[1].description = {"Bluetooth"}
    /\ comports.ports[1].vid = PicoVid
    /\ comports.ports[2].description = {"USB Serial"}
    /\ located.port = DevPath(1)

\* No port can be found: no override, and the enumeration fails or lists no
\* qualifying port (or pyserial is missing).
NotFound ==
    /\ Override = NoPort
    /\ \/ ~SERIAL_AVAILABLE
       \/ comports.raises
       \/ \A i \in DOMAIN comports.ports : ~Qualifies(comports.ports[i])

\* C27: when no port can be found, port location yields none, the
\* construction of the display completes without raising and leaves the
\* display without a handle, and connect_and_display can start.
C27_NotFoundIsNotFatal ==
    [][ /\ (NotFound /\ ~located.called /\ located'.called)
           => located'.port = NoPort
        /\ (NotFound /\ pc = "configured" /\ pc' \notin {"configured", "located"})
           => (pc' = "constructed" /\ ser' = "None" /\ ~HasOpen(devlog'))
        /\ (NotFound /\ pc = "constructed") => ENABLED StartConsumer ]_vars

\* C27 witness: the enumeration failed and the consumer has started.
C27_Witness ==
    /\ pc = "connect"
    /\ comports.raises
    /\ SERIAL_AVAILABLE
    /\ Override = NoPort
    /\ ser = "None"
    /\ devlog = <<"no_port">>

\* C28: every successful open is followed, within the call that made it, by
\* the settle delay and by nothing else: the call returns only after the
\* delay, and it is later calls that write.
C28_SettleBeforeAnyWrite ==
    \A i \in DOMAIN devlog :
        devlog[i] = "open_ok"
          => (i + 1 = Len(devlog) /\ devlog[i + 1] = "settle")

\* C28 witness: a reconnect has opened the port and waited.
C28_Witness ==
    /\ pc = "display"
    /\ calls # <<>>
    /\ devlog = <<"write_SerialException", "close", "sleep1", "open_ok", "settle">>
    /\ ser = "Serial"

----------------------------------------------------------------------------
(* Configuration *)

\* C29 (as stated): whatever signal name is configured, a frame
\* {signal_name: n} with a number n is parsed to the reading n.
C29_ConfiguredSignalParses ==
    (event_data # NoFrame /\ parsed # Unparsed)
      => parsed = Reading(event_data.n)

\* The requests.get of the step is a connection attempt.
ConnectStep ==
    /\ pc = "connect"
    /\ last'.op \in {"connect_ok", "connect_fail"}
    /\ pc' # "connect" \/ last' # last

\* C30: every connection attempt, the first and every retry, is sent with
\* Accept: text/event-stream and Cache-Control: no-cache, and with x-api-key
\* exactly when an API key is configured and not empty, its value being the
\* key; it is sent with no other header.
C30_HeadersOnEveryAttempt ==
    [][ConnectStep =>
          LET h == request'.headers
              keyed == { x \in h : x[1] = "x-api-key" }
          IN /\ <<"Accept", "text/event-stream">> \in h
             /\ <<"Cache-Control", "no-cache">> \in h
             /\ Cardinality(h \ keyed) = 2
             /\ IF api_key \in {NoKey, ""}
                THEN keyed = {}
                ELSE keyed = { <<"x-api-key", api_key>> }]_vars

\* C30 witness: the third attempt in a row, with a key configured.
C30_Witness ==
    /\ last.op = "connect_fail"
    /\ retry_count = 3
    /\ api_key = "secret"
    /\ <<"x-api-key", "secret">> \in request.headers

----------------------------------------------------------------------------
(* An auto-detecting display while the attached ports change *)

\* The one value written while the attached ports change.
RetainSpeed == 427

\* PicoScrollDisplay() with no port argument and PICO_SERIAL_PORT unset, on a
\* host with pyserial: _init_serial looks the port up among the attached ports.
InitRetain ==
    /\ pc = "display"
    /\ retry_count = 0
    /\ SERIAL_AVAILABLE = TRUE
    /\ env_port = NoPort
    /\ comports \in Enumerations
    /\ \E open \in OpenOutcomes :
         LET r == PicoScrollDisplay(NoPort, env_port, SERIAL_AVAILABLE, comports, open)
         IN /\ ser = r.ser
            /\ port = r.port
            /\ devlog = r.log
    /\ current_speed = PyNone
    /\ wire = <<>>
    /\ calls = <<>>
    /\ payload = EmptyData
    /\ parsed = Unparsed
    /\ last = [op |-> "init", event |-> "none", rc |-> 0]
    /\ consecFails = 0
    /\ elapsed = display_update_interval
    /\ failsSince = 0
    /\ cleanups = 0
    /\ request = NoRequest
    /\ FirmwareBoot(display_update_interval)
    /\ located = NotLocated
    /\ signal_name = DefaultSignal
    /\ event_data = NoFrame
    /\ api_key = NoKey

\* Ports are plugged in, pulled out or renumbered: what comports() would
\* report from now on.
Replug(enum) ==
    /\ pc = "display"
    /\ enum # comports
    /\ comports' = enum
    /\ UNCHANGED <<hostVars, firmwareVars, located, signal_name, event_data,
                   api_key>>

\* display.update_speed(speed) with the ports attached at that time.
UpdateAttached(w, open) == UpdateCall(RetainSpeed, w, comports, open)

NextRetain ==
    \/ \E enum \in Enumerations : Replug(enum)
    \/ \E w \in WriteOutcomes, open \in OpenOutcomes : UpdateAttached(w, open)

RetainSpec == InitRetain /\ [][NextRetain]_vars

\* C31: once an open has succeeded on an auto-detected port the display keeps
\* a path, and no update_speed call changes a path that is kept, whatever
\* ports are attached by then: a reconnect does not consult comports(), it
\* always finds a path to open (the kept one), and the handle it gets is on
\* that path; a failed open leaves the path as it was.
C31_ResolvedPathRetained ==
    [][/\ (ser = "Serial" /\ Enumerates(NoPort, env_port, SERIAL_AVAILABLE))
            => (port # NoPort /\ ~Enumerates(port, env_port, SERIAL_AVAILABLE))
       /\ (IsUpdateSpeedStep /\ port # NoPort)
            => /\ port' = port
               /\ "no_port" \notin Range(devlog')
               /\ "write_SerialException" \in Range(devlog') => HasOpen(devlog')
       /\ (IsUpdateSpeedStep /\ "open_fail" \in Range(devlog'))
            => port' = port]_vars

\* C31 witness: the display found its port among two, the ports were then
\* all pulled, and a reconnect opened the kept path all the same.
C31_Witness ==
    /\ pc = "display"
    /\ env_port = NoPort
    /\ port = DevPath(2)
    /\ comports = NoEnumeration
    /\ devlog = <<"write_SerialException", "close", "sleep1", "open_ok", "settle">>

----------------------------------------------------------------------------
(* The consumer's loop as a whole *)

\* C32: when the event iterator finishes without an exception the consumer is
\* at once back at the connection attempt, with retry_count still 0 and no
\* sleep; and no run of accepted connections and clean stream ends counts a
\* failure or stops the consumer, so such a server is asked again and again.
C32_CleanEndReconnectsAtOnce ==
    [][/\ (pc = "stream" /\ last'.op = "stream_end")
            => /\ retry_count = 0
               /\ retry_count' = 0
               /\ pc' = "connect"
               /\ failsSince' = failsSince
       /\ last'.op \in {"connect_ok", "stream_end"}
            => (pc' \in {"connect", "stream"} /\ retry_count' = 0)
       /\ (last.op = "stream_end" /\ pc = "connect") => ENABLED Connect("ok")
       /\ (last.op = "connect_ok" /\ pc = "stream") => ENABLED StreamEnd]_vars

\* C32 witness: a stream that delivered readings has just been closed by the
\* server and the consumer is about to connect again, nothing counted.
C32_Witness ==
    /\ pc = "connect"
    /\ last.op = "stream_end"
    /\ retry_count = 0
    /\ failsSince = 0
    /\ Len(calls) = 2

\* C33: the retry counter always lies in 0..max_retries and equals the number
\* of failures since the last successful connection (or since start); it is 0
\* throughout streaming, and it is max_retries only when the fatal error has
\* been raised.
C33_RetryCountIsFailuresSinceSuccess ==
    /\ retry_count \in 0..max_retries
    /\ retry_count = failsSince
    /\ pc = "stream" => retry_count = 0
    /\ retry_count = max_retries => pc = "raised"
    /\ pc = "sleep" => retry_count \in 1..(max_retries - 1)

\* C33 witness: one failure short of the budget, sleeping before the last
\* attempt, after a stream that had delivered readings.
C33_Witness ==
    /\ pc = "sleep"
    /\ retry_count = max_retries - 1
    /\ failsSince = max_retries - 1
    /\ calls # <<>>

\* The step raises an exception that is not a RequestException inside the
\* try while streaming: from the event iterator or from parse_event_data.
UnexpectedStep ==
    \/ StreamError("Exception")
    \/ /\ pc = "stream"
       /\ last'.op = "frame"
       /\ parsed'.r \notin {"float", "None", "unparsed", "RequestException"}

\* C34: an unexpected exception raised while streaming is handled as a
\* transport failure is: the connection is abandoned, the retry counter grows
\* by exactly one, the consumer sleeps retry_delay when the budget remains and
\* re-raises when the counter has reached max_retries; the display is left
\* alone.
C34_UnexpectedHandledAsFailure ==
    [][UnexpectedStep =>
         /\ retry_count' = retry_count + 1
         /\ pc' = IF retry_count + 1 < max_retries THEN "sleep" ELSE "raised"
         /\ retry_count' = OnFailure(retry_count).retry_count
         /\ pc' = OnFailure(retry_count).pc
         /\ failsSince' = failsSince + 1
         /\ UNCHANGED <<ser, wire, calls, cleanups>>]_vars

\* C34 witness: parse_event_data raised on a payload that is no JSON object,
\* after a reading had been delivered, and the consumer sleeps with one
\* failure counted.
C34_Witness ==
    /\ pc = "sleep"
    /\ last.op = "frame"
    /\ parsed.r = "AttributeError"
    /\ retry_count = 1
    /\ Len(calls) = 1

----------------------------------------------------------------------------
(* The wire *)

\* C35: an update_speed call makes at most one serial write and puts at most
\* one line on the wire; a call whose write failed puts none there, even when
\* its reconnect opened the port again; and the wire grows by nothing but the
\* delivery of a stream event's reading, so after a failed write the device
\* receives nothing until the next event is delivered.
C35_AtMostOneWriteNoResend ==
    [][/\ IsUpdateSpeedStep
            => /\ Len(Writes(devlog')) <= 1
               /\ Len(wire') <= Len(wire) + 1
               /\ SubSeq(wire', 1, Len(wire)) = wire
               /\ WriteFailed(devlog')
                    => (Len(wire') = Len(wire) /\ "write_ok" \notin Range(devlog'))
       /\ wire' # wire
            => /\ IsUpdateSpeedStep
               /\ last'.op = "frame"
               /\ parsed'.r = "float"
               /\ wire' = Append(wire, PyInt(parsed'.v))]_vars

\* C35 witness: the write of the second reading failed, the reconnect within
\* the call opened the port again, and the wire still holds the first line
\* only.
C35_Witness ==
    /\ last.op = "frame"
    /\ Len(calls) = 2
    /\ Len(wire) = 1
    /\ ser = "Serial"
    /\ "write_SerialException" \in Range(devlog)
    /\ "open_ok" \in Range(devlog)

----------------------------------------------------------------------------
(* Order of delivery *)

\* C36: update_speed is called only while streaming, by the step that
\* receives a frame and parses a reading from it, once, with that reading,
\* after all earlier calls (the calls made are the readings parsed, in
\* arrival order); no call is made while connecting or sleeping, between a
\* failure and the next accepted connection, or once the consumer has
\* stopped.
C36_DeliveredInOrderWhileStreaming ==
    [][/\ calls' # calls
            => /\ pc = "stream"
               /\ failsSince = 0
               /\ last'.op = "frame"
               /\ parsed'.r = "float"
               /\ calls' = Append(calls, parsed'.v)
               /\ current_speed' = parsed'
       /\ (pc # "stream" \/ failsSince > 0 \/ Stopped) => calls' = calls
       /\ (pc = "stream" /\ last'.op = "frame" /\ parsed'.r # "float")
            => calls' = calls]_vars

\* C36 witness: three readings were delivered in the order they arrived, the
\* last one just now.
C36_Witness ==
    /\ pc = "stream"
    /\ calls = <<427, 300, 427>>
    /\ current_speed = Reading(427)
    /\ parsed = Reading(427)
    /\ last.op = "frame"

----------------------------------------------------------------------------
(* Serial handles *)

\* The number of handles a display with this ser attribute holds.
Held(s) == IF s = "None" THEN 0 ELSE 1

\* The number of serial handles open after the first n operations of a
\* display call that started with h open: an open that succeeded adds one,
\* a close() call on the held handle, whether or not it raised, takes one
\* away.
RECURSIVE HandlesAfter(_, _, _)
HandlesAfter(h, log, n) ==
    IF n = 0 THEN h
    ELSE LET before == HandlesAfter(h, log, n - 1)
         IN CASE log[n] = "open_ok" -> before + 1
              [] log[n] \in {"close", "close_fail"} -> before - 1
              [] OTHER -> before

\* C37: at every point of every display call at most one serial handle is
\* open (a reconnect has closed the old one before it opens the new one), and
\* when the call returns the only handle open is the one the display holds:
\* none that was replaced or cleaned up stays open.
C37_AtMostOneOpenHandle ==
    [][/\ \A n \in 0..Len(devlog') :
            HandlesAfter(Held(ser), devlog', n) \in 0..1
       /\ HandlesAfter(Held(ser), devlog', Len(devlog')) = Held(ser')
       /\ \A i, j \in DOMAIN devlog' :
            (devlog'[i] = "open_ok" /\ devlog'[j] = "close") => j < i]_vars

\* C37 witness: after two writes the third failed and the reconnect replaced
\* the handle.
C37_Witness ==
    /\ pc = "display"
    /\ Len(calls) = 3
    /\ Len(wire) = 2
    /\ cleanups = 0
    /\ ser = "Serial"
    /\ devlog = <<"write_SerialException", "close", "sleep1", "open_ok", "settle">>

\* C38: once cleanup() has been called on a display, every later update_speed
\* call records its value as current_speed and does nothing else: it writes
\* nothing (no write is attempted and the wire is as it was), it opens no
\* port, and the display still holds no handle.
C38_NoWriteNoReopenAfterCleanup ==
    [][(cleanups >= 1 /\ IsUpdateSpeedStep)
         => /\ ser = "None"
            /\ current_speed' = Reading(calls'[Len(calls')])
            /\ wire' = wire
            /\ Writes(devlog') = <<>>
            /\ ~HasOpen(devlog')
            /\ ser' = "None"
            /\ port' = port]_vars

\* C38 witness: a display that had written a line was cleaned up, and the
\* update_speed call made after that only recorded its value.
C38_Witness ==
    /\ pc = "display"
    /\ cleanups = 1
    /\ last.op = "update_speed"
    /\ Len(wire) = 1
    /\ Len(calls) = 2
    /\ calls[2] # calls[1]
    /\ current_speed = Reading(calls[2])
    /\ devlog = <<"unavailable">>

====
